---- MODULE Spec2Model ----
(***************************************************************************)
(* Model of the Deepgram Voice AI extension's orchestration service        *)
(* (src/unnamed/part_002, class DeepgramService) together with the store   *)
(* operations its panel host calls (src/unnamed/part_003).                 *)
(*                                                                         *)
(* The service is a single-threaded JavaScript object.  A call runs        *)
(* without interruption until it returns or reaches an `await`; other      *)
(* calls and callbacks (audio chunks, network responses, panel commands)   *)
(* interleave only at those points.                                        *)
(***************************************************************************)
EXTENDS FiniteSets, Integers, Sequences, TLC

\* ------------------------------------------------------------------------
\* Bounds of the model
\* ------------------------------------------------------------------------

\* Capture sessions that may be started in one run.
MaxRecordings == 2

\* Audio chunks delivered in one run, over all streams.
MaxChunks == 2

\* Clock ticks (milliseconds of Date.now()) in one run.
MaxTime == 1

\* ------------------------------------------------------------------------
\* Values
\* ------------------------------------------------------------------------

\* JavaScript null / undefined.
Null == [null |-> TRUE]

\* The default of startRecording's sampleRate parameter.
DefaultSampleRate == 16000

\* API keys the user may enter; '' is "no key set".
Keys == {"", "k1"}

SampleRates == {DefaultSampleRate, 48000}

\* Chunks the audio stream may emit (byte sequences).
Chunks == {<<65>>, <<66, 67>>}

\* new Error(message)
Error(message) == [name |-> "Error", message |-> message]

\* The error kinds of the design, as the code raises them.
MissingCredentialError == Error("Please set your Deepgram API key first")
AlreadyRecordingError == Error("Recording already in progress")
NotRecordingError == Error("No recording in progress")
NotFoundError == Error("Audio recording not found")
EmptyAudioError == Error("No audio data recorded. Please record audio first.")
\* What recorder.record() throws when the backend cannot be spawned.
DeviceUnavailableError == [name |-> "Error", message |-> "spawn sox ENOENT", code |-> "ENOENT"]

\* `recording_${n}`
RecordingIdString(n) == "recording_" \o ToString(n)

\* Variant of BufferConcat that puts each chunk in front of the earlier ones.
RECURSIVE BufferConcat_Reversed(_)
BufferConcat_Reversed(chunks) ==
    IF chunks = <<>> THEN <<>> ELSE BufferConcat_Reversed(Tail(chunks)) \o Head(chunks)

\* Buffer.concat(chunks)
RECURSIVE BufferConcat(_)
BufferConcat(chunks) ==
    IF chunks = <<>> THEN <<>> ELSE Head(chunks) \o BufferConcat(Tail(chunks))

\* (end - start) / 1000, kept as the fraction <<numerator, denominator>>.
Duration(start, end) == <<end - start, 1000>>

\* Map.prototype.set
MapSet(map, key, value) ==
    [k \in DOMAIN map \cup {key} |-> IF k = key THEN value ELSE map[k]]

\* Map.prototype.delete
MapDelete(map, key) == [k \in DOMAIN map \ {key} |-> map[k]]

\* Map.prototype.get
MapGet(map, key) == IF key \in DOMAIN map THEN map[key] ELSE Null

\* ------------------------------------------------------------------------
\* State
\* ------------------------------------------------------------------------

VARIABLES
    apiKey,             \* DeepgramService.apiKey
    useShortLivedToken, \* DeepgramService.useShortLivedToken
    recordings,         \* DeepgramService.recordings: id -> AudioRecording
    currentRecording,   \* DeepgramService.currentRecording, or Null
    recordingId,        \* DeepgramService.recordingId
    streams,            \* heap: per started stream, its `chunks` array and whether stop() was called
    now,                \* Date.now()
    lastCall,           \* observer: the capture or store call just made, if the step was one, and what it returned or threw
    sessions,           \* observer: per started session, its rate and the chunks delivered while it was active
    deleteLog,          \* observer: the ids of the deleteAudio commands the host has logged
    assigned,           \* observer: the ids stopRecording assigned, in creation order
    ops,                \* the transcribeAudio / synthesizeSpeech calls made so far, each with its position
    tokensIssued,       \* provider: short-lived tokens granted so far
    webview             \* the panel's script (its isRecording flag), the recording messages in flight, and the host's handlers awaiting a recording call

vars == <<apiKey, useShortLivedToken, recordings, currentRecording, recordingId,
          streams, now, lastCall, sessions, deleteLog, assigned, ops, tokensIssued,
          webview>>

\* The in-flight calls and the provider.
network == <<ops, tokensIssued>>

\* The observers of the store.
storeLog == <<deleteLog, assigned>>

\* The script of the panel as it loads (`let isRecording = false`), with no
\* command on its way to the host, no handler of the host suspended and no
\* event on its way to the panel.
WebviewLoaded ==
    [isRecording |-> FALSE, commands |-> <<>>, awaiting |-> <<>>, events |-> <<>>]

\* `arg` is the sample rate of a startRecording and the id of a store operation.
Call(op, arg, error, value) == [op |-> op, arg |-> arg, error |-> error, value |-> value]

\* The step was none of the observed calls.
NoCall == Call("none", Null, Null, Null)

Init ==
    /\ apiKey = ""
    /\ useShortLivedToken = FALSE
    /\ recordings = <<>>
    /\ currentRecording = Null
    /\ recordingId = 0
    /\ streams = <<>>
    /\ now = 0
    /\ lastCall = NoCall
    /\ sessions = <<>>
    /\ deleteLog = {}
    /\ assigned = <<>>
    /\ ops = <<>>
    /\ tokensIssued = 0
    /\ webview = WebviewLoaded

\* ------------------------------------------------------------------------
\* DeepgramService: credentials
\* ------------------------------------------------------------------------

SetApiKey(key) ==
    /\ apiKey' = key
    /\ lastCall' = NoCall
    /\ UNCHANGED <<useShortLivedToken, recordings, currentRecording, recordingId,
                   streams, now, sessions, storeLog, network, webview>>

SetUseShortLivedToken(value) ==
    /\ useShortLivedToken' = value
    /\ lastCall' = NoCall
    /\ UNCHANGED <<apiKey, recordings, currentRecording, recordingId,
                   streams, now, sessions, storeLog, network, webview>>

\* ------------------------------------------------------------------------
\* DeepgramService: capture
\* ------------------------------------------------------------------------

\* Variant of StartRecordingGuard without the check for an active session.
StartRecordingGuard_NoSessionCheck(key, current) ==
    IF key = "" THEN MissingCredentialError ELSE Null

\* Variant of StartRecordingGuard without the check for an API key.
StartRecordingGuard_NoKeyCheck(key, current) ==
    IF current # Null THEN AlreadyRecordingError ELSE Null

\* The two guards at the head of startRecording: the error thrown, or Null.
StartRecordingGuard(key, current) ==
    IF key = "" THEN MissingCredentialError
    ELSE IF current # Null THEN AlreadyRecordingError
    ELSE Null

\* Variant of NewSession in which every session accumulates into the chunks
\* array of the first.
NewSession_SharedChunks(handle, sampleRate, time) ==
    [chunks |-> 1, startTime |-> time, stream |-> handle, sampleRate |-> sampleRate]

\* The session object startRecording stores; `handle` is the new stream, whose
\* chunks array the session shares with the stream's write callback.
NewSession(handle, sampleRate, time) ==
    [chunks |-> handle, startTime |-> time, stream |-> handle, sampleRate |-> sampleRate]

\* What becomes of the recorder process: it runs; recorder.record() throws; or
\* record() returns and the process reports afterwards, on an event nothing
\* listens to, that it could not be spawned.
Backends == {"runs", "throws", "fails"}

\* What startRecording(sampleRate) throws or rejects with, or Null.
StartRecordingError(key, current, backend) ==
    IF StartRecordingGuard(key, current) # Null THEN StartRecordingGuard(key, current)
    ELSE IF backend = "throws" THEN DeviceUnavailableError
    ELSE Null

\* startRecording(sampleRate), with what becomes of the recorder process: what
\* the call does to the service.
StartRecordingCall(sampleRate, backend) ==
    LET handle == Len(streams) + 1
    IN  /\ IF StartRecordingError(apiKey, currentRecording, backend) # Null
           THEN UNCHANGED <<currentRecording, streams, sessions>>
           ELSE /\ streams' = Append(streams, [chunks |-> <<>>, stopped |-> FALSE,
                                            spawned |-> backend = "runs"])
                /\ currentRecording' = NewSession(handle, sampleRate, now)
                /\ sessions' = Append(sessions, [sampleRate |-> sampleRate, delivered |-> <<>>])
        /\ UNCHANGED <<apiKey, useShortLivedToken, recordings, recordingId, now, storeLog, network>>

\* A call of startRecording whose caller has its outcome in the same step.
StartRecording(sampleRate, backend) ==
    /\ StartRecordingCall(sampleRate, backend)
    /\ lastCall' = Call("startRecording", sampleRate,
                        StartRecordingError(apiKey, currentRecording, backend), Null)
    /\ UNCHANGED webview

\* Chunks written so far, over all streams.
RECURSIVE ChunksWritten(_)
ChunksWritten(heap) ==
    IF heap = <<>> THEN 0 ELSE Len(Head(heap).chunks) + ChunksWritten(Tail(heap))

\* The Writable's write(chunk) callback of stream `handle`: chunks.push(chunk).
\* A stopped stream may still flush what it had buffered; a process that was
\* never spawned writes nothing.
WriteChunk(handle, chunk) ==
    /\ handle \in DOMAIN streams
    /\ streams[handle].spawned
    /\ ChunksWritten(streams) < MaxChunks
    /\ streams' = [streams EXCEPT ![handle].chunks = Append(@, chunk)]
    /\ sessions' = IF currentRecording # Null /\ currentRecording.stream = handle
                   THEN [sessions EXCEPT ![handle].delivered = Append(@, chunk)]
                   ELSE sessions
    /\ lastCall' = NoCall
    /\ UNCHANGED <<apiKey, useShortLivedToken, recordings, currentRecording,
                   recordingId, now, storeLog, network, webview>>

\* Variant of StopRecordingResult that advances the counter before the check
\* for an active session.
StopRecordingResult_CountsFirst(current, counter, heap, time) ==
    IF current = Null
    THEN [error |-> NotRecordingError, value |-> Null, recordingId |-> counter + 1]
    ELSE [error |-> Null,
          recordingId |-> counter + 1,
          value |-> [id |-> RecordingIdString(counter + 1),
                     buffer |-> BufferConcat(heap[current.chunks].chunks),
                     duration |-> Duration(current.startTime, time),
                     sampleRate |-> current.sampleRate]]

\* Variant of StopRecordingResult that names the recording without advancing
\* the counter.
StopRecordingResult_NoIncrement(current, counter, heap, time) ==
    IF current = Null
    THEN [error |-> NotRecordingError, value |-> Null, recordingId |-> counter]
    ELSE [error |-> Null,
          recordingId |-> counter,
          value |-> [id |-> RecordingIdString(counter + 1),
                     buffer |-> BufferConcat(heap[current.chunks].chunks),
                     duration |-> Duration(current.startTime, time),
                     sampleRate |-> current.sampleRate]]

\* stopRecording(): what it throws or returns, and the counter afterwards.
StopRecordingResult(current, counter, heap, time) ==
    IF current = Null
    THEN [error |-> NotRecordingError, value |-> Null, recordingId |-> counter]
    ELSE [error |-> Null,
          recordingId |-> counter + 1,
          value |-> [id |-> RecordingIdString(counter + 1),
                     buffer |-> BufferConcat(heap[current.chunks].chunks),
                     duration |-> Duration(current.startTime, time),
                     sampleRate |-> current.sampleRate]]

\* Variant of StopRecordingStore that files the recording under the number of
\* its id.
StopRecordingStore_KeyedByNumber(store, result) ==
    IF result.error = Null
    THEN MapSet(store, ToString(result.recordingId), result.value)
    ELSE store

\* The store after stopRecording.
StopRecordingStore(store, result) ==
    IF result.error = Null THEN MapSet(store, result.value.id, result.value) ELSE store

\* Variant of StopRecordingSession that leaves the session in place.
StopRecordingSession_Keeps(current, result) == current

\* The session state after stopRecording.
StopRecordingSession(current, result) ==
    IF result.error = Null THEN Null ELSE current

\* stopRecording(): what the call does to the service.
StopRecordingCall ==
    LET result == StopRecordingResult(currentRecording, recordingId, streams, now)
    IN  /\ recordingId' = result.recordingId
        /\ recordings' = StopRecordingStore(recordings, result)
        /\ currentRecording' = StopRecordingSession(currentRecording, result)
        /\ streams' = IF currentRecording # Null
                      THEN [streams EXCEPT ![currentRecording.stream].stopped = TRUE]
                      ELSE streams
        /\ assigned' = IF result.error = Null THEN Append(assigned, result.value.id) ELSE assigned
        /\ UNCHANGED <<apiKey, useShortLivedToken, now, sessions, deleteLog, network>>

\* The outcome of stopRecording() as its caller gets it.
StopRecordingOutcome ==
    Call("stopRecording", Null,
         StopRecordingResult(currentRecording, recordingId, streams, now).error,
         StopRecordingResult(currentRecording, recordingId, streams, now).value)

\* A call of stopRecording whose caller has its outcome in the same step.
StopRecording ==
    /\ StopRecordingCall
    /\ lastCall' = StopRecordingOutcome
    /\ UNCHANGED webview

\* Date.now() advances.
Tick ==
    /\ now < MaxTime
    /\ now' = now + 1
    /\ lastCall' = NoCall
    /\ UNCHANGED <<apiKey, useShortLivedToken, recordings, currentRecording,
                   recordingId, streams, sessions, storeLog, network, webview>>

\* ------------------------------------------------------------------------
\* DeepgramService: the store operations the panel host calls
\* ------------------------------------------------------------------------

\* The TypeError of calling a method that DeepgramService does not define.
NotAFunctionError(method) ==
    [name |-> "TypeError",
     message |-> "this.deepgramService." \o method \o " is not a function"]

\* The methods of DeepgramService.
ServiceMethods ==
    {"setApiKey", "setUseShortLivedToken", "getAuthToken", "startRecording",
     "stopRecording", "getAuthHeaderValue", "transcribeAudio", "synthesizeSpeech"}

\* this.deepgramService.<method>(...) as the panel host calls it: the TypeError
\* thrown at the call when the service has no such method, or Null.
CallError(method) ==
    IF method \notin ServiceMethods THEN NotAFunctionError(method) ELSE Null

\* The command deleteAudio of the panel: the listener logs the id and calls
\* deleteRecording(id); the call throws and the listener's promise rejects.
DeleteAudio(id) ==
    /\ deleteLog' = deleteLog \cup {id}
    /\ lastCall' = Call("deleteRecording", id, CallError("deleteRecording"), Null)
    /\ UNCHANGED <<apiKey, useShortLivedToken, recordings, currentRecording, recordingId,
                   streams, now, sessions, assigned, network, webview>>

\* The ids a panel may name: those the counter can issue, and one it never issues.
AudioIds == {RecordingIdString(n) : n \in 1..MaxRecordings} \cup {"recording_x"}

\* ------------------------------------------------------------------------
\* DeepgramService: credential resolution
\* ------------------------------------------------------------------------

\* Calls to transcribeAudio and synthesizeSpeech in one run.
MaxOps == 1

\* Capture sessions started in a run that goes on to transcribe.
MaxClips == 1

\* Commands the panel sends in a run in which several are in flight at once.
MaxCommands == 2

\* Recording messages in flight between the panel and the host at one time.
MaxInFlight == 2

GrantUrl == "https://api.deepgram.com/v1/auth/grant"
ListenUrl == "https://api.deepgram.com/v1/listen"
SpeakUrl(voice) == "https://api.deepgram.com/v1/speak?model=" \o voice

\* A fetch(url, {method: 'POST', headers, body}) call.
Request(url, authorization, contentType, body) ==
    [url |-> url, method |-> "POST", authorization |-> authorization,
     contentType |-> contentType, body |-> body]

\* What the provider may answer: the status and the body as response.json(),
\* response.text() or response.arrayBuffer() deliver it. A rejected fetch
\* carries the error it rejects with.
Response(ok, statusText, body) ==
    [rejected |-> FALSE, ok |-> ok, statusText |-> statusText, body |-> body]
FetchFailed ==
    [rejected |-> TRUE, error |-> [name |-> "TypeError", message |-> "fetch failed"]]

\* The n-th short-lived token the provider grants.
AccessToken(n) == "jwt" \o ToString(n)

\* Answers of POST /v1/auth/grant when n tokens were granted before.
GrantResponses(n) ==
    { Response(TRUE, "OK", [json |-> [access_token |-> AccessToken(n + 1), expires_in |-> 3600]]),
      Response(FALSE, "Unauthorized", [text |-> "invalid credentials"]),
      FetchFailed }

\* Answers of POST /v1/listen.
ListenResponses ==
    { Response(TRUE, "OK",
               [json |-> [results |->
                   [channels |-> <<[alternatives |-> <<[transcript |-> "hello"]>>]>>]]]),
      Response(FALSE, "Bad Request", [text |-> "corrupt or unsupported data"]),
      FetchFailed }

\* A successful answer of POST /v1/listen whose first channel has no
\* alternative.
NoAlternativeResponse ==
    Response(TRUE, "OK", [json |-> [results |-> [channels |-> <<[alternatives |-> <<>>]>>]]])

\* Successful answers of POST /v1/listen whose body has no first channel, no
\* first alternative, or no transcript in it.
MalformedResponses ==
    { Response(TRUE, "OK", [json |-> [results |-> [channels |-> <<>>]]]),
      NoAlternativeResponse,
      Response(TRUE, "OK",
               [json |-> [results |->
                   [channels |-> <<[alternatives |-> <<[confidence |-> 0]>>]>>]]]) }

\* Answers of POST /v1/speak.
SpeakResponses ==
    { Response(TRUE, "OK", [bytes |-> <<73, 68, 51>>]),
      Response(FALSE, "Bad Request", [text |-> "unknown model"]),
      FetchFailed }

\* Variant of GetAuthToken that keeps the last token it was granted and
\* returns it, without a request, while it has one.
GetAuthToken_Cached(shortLived, key) ==
    IF ~shortLived
    THEN [fetch |-> Null, token |-> key]
    ELSE IF tokensIssued > 0
    THEN [fetch |-> Null, token |-> AccessToken(tokensIssued)]
    ELSE [fetch |-> Request(GrantUrl, "Token " \o key, "application/json",
                            [scopes |-> <<"usage:write">>, ttl |-> 3600]),
          token |-> ""]

\* getAuthToken() up to its first suspension: the token it returns at once, or
\* the request it sends to the token-issuance endpoint.
GetAuthToken(shortLived, key) ==
    IF ~shortLived
    THEN [fetch |-> Null, token |-> key]
    ELSE [fetch |-> Request(GrantUrl, "Token " \o key, "application/json",
                            [scopes |-> <<"usage:write">>, ttl |-> 3600]),
          token |-> ""]

\* Variant of GetAuthTokenResult that does not look at response.ok.
GetAuthTokenResult_IgnoresStatus(response) ==
    IF response.rejected
    THEN [error |-> response.error, token |-> ""]
    ELSE [error |-> Null,
          token |-> IF "json" \in DOMAIN response.body
                    THEN response.body.json.access_token ELSE "undefined"]

\* getAuthToken() from the response on: the token it returns, or the error it
\* rethrows.
GetAuthTokenResult(response) ==
    IF response.rejected
    THEN [error |-> response.error, token |-> ""]
    ELSE IF ~response.ok
    THEN [error |-> Error("Failed to get short-lived token: " \o response.statusText),
          token |-> ""]
    ELSE [error |-> Null, token |-> response.body.json.access_token]

\* getAuthHeaderValue(token)
GetAuthHeaderValue(shortLived, token) ==
    IF shortLived THEN "Bearer " \o token ELSE "Token " \o token

\* ------------------------------------------------------------------------
\* DeepgramService: the transcription query string
\* ------------------------------------------------------------------------

\* Keyterms in one list of the options.
MaxKeyterms == 2

\* The boolean feature flags, in the order transcribeAudio appends them.
Flags ==
    <<"multichannel", "punctuate", "dictation", "paragraphs", "smart_format",
      "utterances", "diarize">>

FlagSet == {Flags[i] : i \in DOMAIN Flags}

\* An options object has the field (it is not undefined).
Has(options, field) == field \in DOMAIN options

\* The characters of a string.
Chars(s) == {SubSeq(s, i, i) : i \in 1..Len(s)}

\* The characters application/x-www-form-urlencoded leaves as they are.
UrlSafeChars ==
    Chars("abcdefghijklmnopqrstuvwxyzABCDEFGHIJKLMNOPQRSTUVWXYZ0123456789*-._")

\* The percent-encoding of the other ASCII characters of the model's strings.
PercentEncoded ==
    [c \in {"!", "#", "$", "%", "&", "'", "+", ",", "/", ":", "=", "?", "@"} |->
        CASE c = "!" -> "%21" [] c = "#" -> "%23" [] c = "$" -> "%24"
          [] c = "%" -> "%25" [] c = "&" -> "%26" [] c = "'" -> "%27"
          [] c = "+" -> "%2B" [] c = "," -> "%2C" [] c = "/" -> "%2F"
          [] c = ":" -> "%3A" [] c = "=" -> "%3D" [] c = "?" -> "%3F"
          [] c = "@" -> "%40"]

\* The serialization of one character of a name or value.
FormUrlEncodeChar(c) ==
    IF c \in UrlSafeChars THEN c
    ELSE IF c = " " THEN "+"
    ELSE PercentEncoded[c]

\* The serialization of s from its i-th character on.
RECURSIVE FormUrlEncodeFrom(_, _)
FormUrlEncodeFrom(s, i) ==
    IF i > Len(s) THEN ""
    ELSE FormUrlEncodeChar(SubSeq(s, i, i)) \o FormUrlEncodeFrom(s, i + 1)

\* The serialization of one name or value by URLSearchParams.prototype.toString.
FormUrlEncode(s) == FormUrlEncodeFrom(s, 1)

\* The serialization of the pairs from the i-th on.
RECURSIVE ParamsToStringFrom(_, _)
ParamsToStringFrom(params, i) ==
    IF i > Len(params) THEN ""
    ELSE FormUrlEncode(params[i][1]) \o "=" \o FormUrlEncode(params[i][2])
         \o (IF i = Len(params) THEN "" ELSE "&" \o ParamsToStringFrom(params, i + 1))

\* URLSearchParams.prototype.toString: name=value pairs joined by '&'.
ParamsToString(params) == ParamsToStringFrom(params, 1)

\* Variant of InitialParams that tests whether options.sample_rate is defined,
\* not whether it is truthy.
InitialParams_RateIfDefined(options) ==
    <<<<"model", IF Has(options, "model") /\ options.model # ""
                 THEN options.model ELSE "nova-3">>>>
    \o (IF Has(options, "sample_rate")
        THEN <<<<"sample_rate", ToString(options.sample_rate)>>>>
        ELSE <<>>)

\* new URLSearchParams({model: options.model || 'nova-3',
\*                      ...(options.sample_rate && {sample_rate: ...toString()})})
InitialParams(options) ==
    <<<<"model", IF Has(options, "model") /\ options.model # ""
                 THEN options.model ELSE "nova-3">>>>
    \o (IF Has(options, "sample_rate") /\ options.sample_rate # 0
        THEN <<<<"sample_rate", ToString(options.sample_rate)>>>>
        ELSE <<>>)

\* Variant of FlagParams that appends every flag the options carry, with its value.
RECURSIVE FlagParams_EmitsFalse(_, _)
FlagParams_EmitsFalse(options, i) ==
    IF i > Len(Flags) THEN <<>>
    ELSE (IF Has(options, Flags[i])
          THEN <<<<Flags[i], IF options[Flags[i]] THEN "true" ELSE "false">>>>
          ELSE <<>>)
         \o FlagParams_EmitsFalse(options, i + 1)

\* if (options.<flag>) { params.append('<flag>', 'true'); } from the i-th flag on.
RECURSIVE FlagParams(_, _)
FlagParams(options, i) ==
    IF i > Len(Flags) THEN <<>>
    ELSE (IF Has(options, Flags[i]) /\ options[Flags[i]]
          THEN <<<<Flags[i], "true">>>>
          ELSE <<>>)
         \o FlagParams(options, i + 1)

\* Variant of KeytermParams that keeps one entry for the whole list.
KeytermParams_FirstOnly(options) ==
    IF Has(options, "keyterms") /\ Len(options.keyterms) > 0
    THEN <<<<"keyterm", options.keyterms[1]>>>>
    ELSE <<>>

\* options.keyterms.forEach(keyterm => params.append('keyterm', keyterm))
KeytermParams(options) ==
    IF Has(options, "keyterms") /\ Len(options.keyterms) > 0
    THEN [i \in 1..Len(options.keyterms) |-> <<"keyterm", options.keyterms[i]>>]
    ELSE <<>>

\* The query parameters transcribeAudio builds from its options.
ListenParams(options) ==
    InitialParams(options) \o FlagParams(options, 1) \o KeytermParams(options)

\* `https://api.deepgram.com/v1/listen?${params.toString()}`
ListenRequestUrl(options) == ListenUrl \o "?" \o ParamsToString(ListenParams(options))

\* ------------------------------------------------------------------------
\* DeepgramService: transcription and synthesis
\* ------------------------------------------------------------------------

\* One call of transcribeAudio or synthesizeSpeech: its arguments, its locals
\* (recording, token), where it is suspended (pc), the requests it has sent and
\* the responses it has received, and what it threw or returned once done.
\* pc is "grant" or "data" while a fetch is awaited, "grantBody" or "dataBody"
\* while the body of the response it delivered is awaited, "token" while the
\* result of getAuthToken is awaited, "header" while the result of
\* getAuthHeaderValue (header) is awaited, and "done" once the call has settled.
\* shortLived and key record the mode and the API key getAuthToken saw.
\* options are the TranscriptionOptions of a transcribeAudio call; events are
\* the messages the panel handler that made the call has posted to the webview.
Operation(kind, audioId, text, voice) ==
    [kind |-> kind, audioId |-> audioId, text |-> text, voice |-> voice,
     options |-> <<>>, pc |-> "done", recording |-> Null, token |-> "",
     header |-> "", shortLived |-> FALSE, key |-> "",
     requests |-> <<>>, responses |-> <<>>, error |-> Null, value |-> Null,
     events |-> <<>>]

\* An operation that threw.
Thrown(op, error) == [op EXCEPT !.pc = "done", !.error = error]

\* The call of getAuthToken and the suspension on it.
AwaitAuthToken(op, shortLived, key) ==
    LET auth == GetAuthToken(shortLived, key)
    IN  [op EXCEPT !.shortLived = shortLived,
                   !.key = key,
                   !.token = auth.token,
                   !.requests = IF auth.fetch = Null THEN @ ELSE Append(@, auth.fetch),
                   !.pc = IF auth.fetch = Null THEN "token" ELSE "grant"]

\* Variant of TranscribeAudioCall that resolves the credential before it looks
\* at what the store returned.
TranscribeAudioCall_TokenFirst(audioId, options, store, shortLived, key) ==
    LET op == [Operation("transcribeAudio", audioId, "", "") EXCEPT !.options = options]
        recording == MapGet(store, audioId)
        awaited == AwaitAuthToken([op EXCEPT !.recording = recording], shortLived, key)
    IN  IF recording = Null THEN Thrown(awaited, NotFoundError) ELSE awaited

\* transcribeAudio(audioId, options) up to its first suspension.
TranscribeAudioCall(audioId, options, store, shortLived, key) ==
    LET op == [Operation("transcribeAudio", audioId, "", "") EXCEPT !.options = options]
        recording == MapGet(store, audioId)
    IN  IF recording = Null
        THEN Thrown(op, NotFoundError)
        ELSE AwaitAuthToken([op EXCEPT !.recording = recording], shortLived, key)

\* Variant of SynthesizeSpeechCall without the check for an API key.
SynthesizeSpeechCall_NoKeyCheck(text, voice, shortLived, key) ==
    AwaitAuthToken(Operation("synthesizeSpeech", "", text, voice), shortLived, key)

\* synthesizeSpeech(text, voice) up to its first suspension.
SynthesizeSpeechCall(text, voice, shortLived, key) ==
    LET op == Operation("synthesizeSpeech", "", text, voice)
    IN  IF key = ""
        THEN Thrown(op, MissingCredentialError)
        ELSE AwaitAuthToken(op, shortLived, key)

\* The operation from the answer of the token-issuance endpoint up to the
\* wait for its body: getAuthToken rethrows a rejected fetch and throws on a
\* status that is not ok without reading the body.
AfterGrantResponse(op, response) ==
    LET result == GetAuthTokenResult(response)
        seen == [op EXCEPT !.responses = Append(@, response)]
    IN  IF result.error # Null
        THEN Thrown(seen, result.error)
        ELSE [seen EXCEPT !.pc = "grantBody"]

\* The operation once response.json() of the token answer has resolved:
\* getAuthToken returns the access token in it.
AfterGrantBody(op) ==
    [op EXCEPT !.token = GetAuthTokenResult(op.responses[Len(op.responses)]).token,
               !.pc = "token"]

\* The operation from the resolved token on, up to the wait for the
\* Authorization header: a transcription checks its buffer, and the call of
\* getAuthHeaderValue reads the mode. shortLived is the mode at that moment.
AfterAuthToken(op, shortLived) ==
    IF op.kind = "transcribeAudio" /\ Len(op.recording.buffer) = 0
    THEN Thrown(op, EmptyAudioError)
    ELSE [op EXCEPT !.pc = "header",
                    !.header = GetAuthHeaderValue(shortLived, op.token)]

\* The operation from the header on: fetch is called with the data request.
AfterAuthHeader(op) ==
    [op EXCEPT !.pc = "data",
               !.requests = Append(@,
                    IF op.kind = "transcribeAudio"
                    THEN Request(ListenRequestUrl(op.options), op.header,
                                 "audio/wav", op.recording.buffer)
                    ELSE Request(SpeakUrl(op.voice), op.header,
                                 "application/json", [text |-> op.text]))]

\* Buffer.from(bytes): the Buffer object an operation holds in a local.
BufferFrom(bytes) == [type |-> "Buffer", data |-> bytes]

\* Array.from(buffer)
ArrayFrom(buffer) == buffer.data

\* Variant of ApiError that reports the status text alone.
ApiError_StatusOnly(kind, response) ==
    Error((IF kind = "transcribeAudio" THEN "Deepgram API error: " ELSE "Deepgram TTS error: ")
          \o response.statusText)

\* The error thrown on a non-success answer of the data endpoint.
ApiError(kind, response) ==
    Error((IF kind = "transcribeAudio" THEN "Deepgram API error: " ELSE "Deepgram TTS error: ")
          \o response.statusText \o " - " \o response.body.text)

\* Variant of AfterDataResponse that sends the request once more when the
\* fetch was rejected.
AfterDataResponse_RetriesOnce(op, response) ==
    LET seen == [op EXCEPT !.responses = Append(@, response)]
        last == op.requests[Len(op.requests)]
        retried == Len(op.requests) >= 2 /\ op.requests[Len(op.requests) - 1] = last
    IN  IF response.rejected
        THEN IF retried THEN Thrown(seen, response.error)
             ELSE [seen EXCEPT !.requests = Append(@, last)]
        ELSE [seen EXCEPT !.pc = "dataBody"]

\* The operation from the answer of the data endpoint up to the wait for its
\* body: a rejected fetch is rethrown, any response has its body read.
AfterDataResponse(op, response) ==
    LET seen == [op EXCEPT !.responses = Append(@, response)]
    IN  IF response.rejected THEN Thrown(seen, response.error)
        ELSE [seen EXCEPT !.pc = "dataBody"]

\* The operation once response.text(), response.json() or
\* response.arrayBuffer() of the data answer has resolved.
AfterDataBody(op) ==
    LET response == op.responses[Len(op.responses)]
    IN  IF ~response.ok THEN Thrown(op, ApiError(op.kind, response))
        ELSE [op EXCEPT !.pc = "done",
                        !.value = IF op.kind = "transcribeAudio"
                                  THEN response.body.json
                                  ELSE BufferFrom(response.body.bytes)]

\* ------------------------------------------------------------------------
\* DeepgramViewProvider: the handlers of the panel's commands
\* ------------------------------------------------------------------------

\* The options handleTranscribe builds from a transcribeAudio command, as the
\* object of its fields.
HandleTranscribeOptions(data) ==
    LET options ==
            [model |-> IF data.model # "" THEN data.model ELSE "nova-3",
             language |-> data.language,
             multichannel |-> data.multichannel,
             punctuate |-> data.punctuate,
             dictation |-> data.dictation,
             paragraphs |-> data.paragraphs,
             smart_format |-> data.smartFormat,
             utterances |-> data.utterances,
             diarize |-> data.diarize,
             sample_rate |-> data.sampleRate,
             keyterms |-> data.keyterms]
    IN  [field \in DOMAIN options |-> options[field]]

\* The TypeError of reading a property of undefined.
ReadError(property) ==
    [name |-> "TypeError",
     message |-> "Cannot read properties of undefined (reading '" \o property \o "')"]

\* result.results.channels[0].alternatives[0].transcript, and transcript.length
\* in the log line after it: the transcript, or the TypeError thrown.
Transcript(result) ==
    IF ~Has(result, "results") THEN [error |-> ReadError("channels"), transcript |-> ""]
    ELSE IF ~Has(result.results, "channels")
    THEN [error |-> ReadError("0"), transcript |-> ""]
    ELSE IF Len(result.results.channels) = 0
    THEN [error |-> ReadError("alternatives"), transcript |-> ""]
    ELSE IF ~Has(result.results.channels[1], "alternatives")
    THEN [error |-> ReadError("0"), transcript |-> ""]
    ELSE IF Len(result.results.channels[1].alternatives) = 0
    THEN [error |-> ReadError("transcript"), transcript |-> ""]
    ELSE IF ~Has(result.results.channels[1].alternatives[1], "transcript")
    THEN [error |-> ReadError("length"), transcript |-> ""]
    ELSE [error |-> Null,
          transcript |-> result.results.channels[1].alternatives[1].transcript]

\* Variant of HandleTranscribeResult that posts the result without reading the
\* transcript out of it.
HandleTranscribeResult_Unchecked(op) ==
    IF op.error # Null
    THEN <<[type |-> "transcriptionError", error |-> op.error.message]>>
    ELSE <<[type |-> "transcriptionResult", transcript |-> "", fullResult |-> op.value]>>

\* handleTranscribe once transcribeAudio has settled: what it posts.
HandleTranscribeResult(op) ==
    IF op.error # Null
    THEN <<[type |-> "transcriptionError", error |-> op.error.message]>>
    ELSE IF Transcript(op.value).error # Null
    THEN <<[type |-> "transcriptionError", error |-> Transcript(op.value).error.message]>>
    ELSE <<[type |-> "transcriptionResult",
            transcript |-> Transcript(op.value).transcript,
            fullResult |-> op.value]>>

\* Variant of HandleTTSResult that logs a failure without posting it.
HandleTTSResult_SilentOnError(op) ==
    IF op.error # Null
    THEN <<>>
    ELSE <<[type |-> "ttsResult", audioData |-> ArrayFrom(op.value)]>>

\* handleTTS once synthesizeSpeech has settled: what it posts.
HandleTTSResult(op) ==
    IF op.error # Null
    THEN <<[type |-> "ttsError", error |-> op.error.message]>>
    ELSE <<[type |-> "ttsResult", audioData |-> ArrayFrom(op.value)]>>

\* handlePlayAudio once getRecordingData has returned or thrown: what it posts.
HandlePlayAudioResult(op) ==
    IF op.error # Null
    THEN <<[type |-> "playAudioError", error |-> op.error.message]>>
    ELSE <<[type |-> "playAudioResult", audioData |-> ArrayFrom(op.value)]>>

\* The handler has its outcome: what it posts to the webview.
Handled(op) ==
    IF op.pc # "done" THEN op
    ELSE [op EXCEPT !.events =
            CASE op.kind = "transcribeAudio" -> HandleTranscribeResult(op)
              [] op.kind = "synthesizeSpeech" -> HandleTTSResult(op)
              [] op.kind = "playAudio" -> HandlePlayAudioResult(op)]

service == <<apiKey, useShortLivedToken, recordings, currentRecording, recordingId,
             streams, now, sessions, storeLog>>

\* handleTranscribe calls transcribeAudio and awaits it: the call runs up to
\* its first suspension or throws, and the handler is suspended either way.
TranscribeAudio(audioId, options) ==
    /\ ops' = Append(ops, TranscribeAudioCall(audioId, options, recordings,
                                              useShortLivedToken, apiKey))
    /\ lastCall' = NoCall
    /\ UNCHANGED <<service, tokensIssued, webview>>

\* The command transcribeAudio of the panel.
HandleTranscribe(data) == TranscribeAudio(data.audioId, HandleTranscribeOptions(data))

\* The command synthesizeSpeech of the panel: handleTTS calls synthesizeSpeech
\* and awaits it.
SynthesizeSpeech(text, voice) ==
    /\ ops' = Append(ops, SynthesizeSpeechCall(text, voice, useShortLivedToken, apiKey))
    /\ lastCall' = NoCall
    /\ UNCHANGED <<service, tokensIssued, webview>>

\* this.deepgramService.getRecordingData(audioId) as handlePlayAudio calls it:
\* getRecordingData is no method of the service, so the call throws.
PlayAudioCall(audioId, store) ==
    [Operation("playAudio", audioId, "", "") EXCEPT
        !.error = CallError("getRecordingData"),
        !.value = Null]

\* The command playAudio of the panel: the call is not awaited, so the handler
\* posts in the same turn.
HandlePlayAudio(audioId) ==
    /\ ops' = Append(ops, Handled(PlayAudioCall(audioId, recordings)))
    /\ lastCall' = NoCall
    /\ UNCHANGED <<service, tokensIssued, webview>>

\* The call the handler of the operation awaits has settled and the handler
\* has not resumed yet.
Settled(op) == op.pc = "done" /\ op.events = <<>>

\* No continuation waits in the microtask queue: no call resumes with its
\* token or its header, no handler resumes from a settled call. The event loop delivers a
\* response or a body only then.
JobsDrained ==
    /\ \A j \in DOMAIN ops : ops[j].pc \notin {"token", "header"} /\ ~Settled(ops[j])
    /\ webview.awaiting = <<>>

\* The token-issuance endpoint answers operation i.
GrantResponse(i, response) ==
    /\ JobsDrained
    /\ i \in DOMAIN ops
    /\ ops[i].pc = "grant"
    /\ response \in GrantResponses(tokensIssued)
    /\ ops' = [ops EXCEPT ![i] = AfterGrantResponse(@, response)]
    /\ tokensIssued' = IF ~response.rejected /\ response.ok
                       THEN tokensIssued + 1 ELSE tokensIssued
    /\ lastCall' = NoCall
    /\ UNCHANGED <<service, webview>>

\* The body of the token answer arrives for operation i.
GrantBody(i) ==
    /\ JobsDrained
    /\ i \in DOMAIN ops
    /\ ops[i].pc = "grantBody"
    /\ ops' = [ops EXCEPT ![i] = AfterGrantBody(@)]
    /\ lastCall' = NoCall
    /\ UNCHANGED <<service, tokensIssued, webview>>

\* Operation i resumes with its token.
ResumeWithToken(i) ==
    /\ i \in DOMAIN ops
    /\ ops[i].pc = "token"
    /\ \E resumed \in {AfterAuthToken(ops[i], useShortLivedToken)} :
          ops' = [ops EXCEPT ![i] = resumed]
    /\ lastCall' = NoCall
    /\ UNCHANGED <<service, tokensIssued, webview>>

\* Operation i resumes with its Authorization header and sends its data
\* request.
ResumeWithHeader(i) ==
    /\ i \in DOMAIN ops
    /\ ops[i].pc = "header"
    /\ \E resumed \in {AfterAuthHeader(ops[i])} :
          ops' = [ops EXCEPT ![i] = resumed]
    /\ lastCall' = NoCall
    /\ UNCHANGED <<service, tokensIssued, webview>>

\* Variant of DataResponse in which a transcription that succeeded removes the
\* recording it has sent.
DataResponse_Consumes(i, response) ==
    /\ JobsDrained
    /\ i \in DOMAIN ops
    /\ ops[i].pc = "data"
    /\ response \in (IF ops[i].kind = "transcribeAudio"
                     THEN ListenResponses \cup MalformedResponses ELSE SpeakResponses)
    /\ ops' = [ops EXCEPT ![i] = AfterDataResponse(@, response)]
    /\ recordings' = IF ops[i].kind = "transcribeAudio" /\ ~response.rejected /\ response.ok
                     THEN MapDelete(recordings, ops[i].audioId) ELSE recordings
    /\ lastCall' = NoCall
    /\ UNCHANGED <<apiKey, useShortLivedToken, currentRecording, recordingId,
                   streams, now, sessions, storeLog, tokensIssued, webview>>

\* The data endpoint answers operation i.
DataResponse(i, response) ==
    /\ JobsDrained
    /\ i \in DOMAIN ops
    /\ ops[i].pc = "data"
    /\ response \in (IF ops[i].kind = "transcribeAudio"
                     THEN ListenResponses \cup MalformedResponses ELSE SpeakResponses)
    /\ ops' = [ops EXCEPT ![i] = AfterDataResponse(@, response)]
    /\ lastCall' = NoCall
    /\ UNCHANGED <<service, tokensIssued, webview>>

\* The body of the data answer arrives for operation i.
DataBody(i) ==
    /\ JobsDrained
    /\ i \in DOMAIN ops
    /\ ops[i].pc = "dataBody"
    /\ ops' = [ops EXCEPT ![i] = AfterDataBody(@)]
    /\ lastCall' = NoCall
    /\ UNCHANGED <<service, tokensIssued, webview>>

\* handleTranscribe or handleTTS resumes from its await and posts the outcome.
HandlerResumes(i) ==
    /\ i \in DOMAIN ops
    /\ Settled(ops[i])
    /\ ops' = [ops EXCEPT ![i] = Handled(@)]
    /\ lastCall' = NoCall
    /\ UNCHANGED <<service, tokensIssued, webview>>

\* A further call is within the bound on calls.
OpsLeft(max) == Len(ops) < max

\* A further start is within the bound on started sessions.
SessionsLeft(max) ==
    StartRecordingGuard(apiKey, currentRecording) = Null => Len(streams) < max

\* Capture alone: every sample rate, every chunk, the clock.
CaptureNext ==
    \/ \E key \in Keys : SetApiKey(key)
    \/ \E sampleRate \in SampleRates, backend \in {"runs", "throws"} :
          SessionsLeft(MaxRecordings) /\ StartRecording(sampleRate, backend)
    \/ \E handle \in 1..MaxRecordings, chunk \in Chunks : WriteChunk(handle, chunk)
    \/ StopRecording
    \/ Tick

\* Capture on a machine whose recorder may fail to start, in either way.
DeviceNext ==
    \/ \E key \in Keys : SetApiKey(key)
    \/ \E sampleRate \in SampleRates, backend \in Backends :
          SessionsLeft(MaxRecordings) /\ StartRecording(sampleRate, backend)
    \/ \E handle \in 1..MaxRecordings : WriteChunk(handle, <<65>>)
    \/ StopRecording

\* Capture at the default rate with the store operations of the panel.
StoreNext ==
    \/ \E key \in Keys : SetApiKey(key)
    \/ SessionsLeft(MaxRecordings) /\ StartRecording(DefaultSampleRate, "runs")
    \/ \E handle \in 1..MaxRecordings : WriteChunk(handle, <<65>>)
    \/ StopRecording
    \/ \E id \in AudioIds : DeleteAudio(id)

\* What the panel may send as text and voice.
Texts == {"hello"}
Voices == {"aura-2-thalia-en"}

\* The message the webview posts when the transcribe button is clicked: `on`
\* are the checked boxes.
TranscribeCommand(audioId, model, language, on, sampleRate, keyterms) ==
    [type |-> "transcribeAudio", audioId |-> audioId, model |-> model,
     language |-> language,
     multichannel |-> "multichannel" \in on, punctuate |-> "punctuate" \in on,
     dictation |-> "dictation" \in on, paragraphs |-> "paragraphs" \in on,
     smartFormat |-> "smartFormat" \in on, utterances |-> "utterances" \in on,
     diarize |-> "diarize" \in on,
     sampleRate |-> sampleRate, keyterms |-> keyterms]

\* The checkboxes of the panel, and those checked when it loads.
Checkboxes ==
    {"multichannel", "punctuate", "dictation", "paragraphs", "smartFormat",
     "utterances", "diarize"}
CheckedByDefault == {"punctuate", "smartFormat"}

\* The command of a panel whose controls were left as they load.
PanelDefaults(audioId) ==
    TranscribeCommand(audioId, "nova-3", "en", CheckedByDefault, DefaultSampleRate, <<>>)

\* The active session has no chunk yet.
NoChunkYet == currentRecording # Null /\ streams[currentRecording.stream].chunks = <<>>

\* Transcription and synthesis over clips captured at the default rate before
\* the first call, each empty or of one chunk, with the credential commands
\* arriving at any suspension.
NetNext ==
    \/ \E key \in Keys : SetApiKey(key)
    \/ \E value \in BOOLEAN : SetUseShortLivedToken(value)
    \/ ops = <<>> /\ SessionsLeft(MaxClips) /\ StartRecording(DefaultSampleRate, "runs")
    \/ ops = <<>> /\ NoChunkYet /\ WriteChunk(currentRecording.stream, <<65>>)
    \/ ops = <<>> /\ currentRecording # Null /\ StopRecording
    \/ \E id \in AudioIds : OpsLeft(MaxOps) /\ HandleTranscribe(PanelDefaults(id))
    \/ \E text \in Texts, voice \in Voices : OpsLeft(MaxOps) /\ SynthesizeSpeech(text, voice)
    \/ \E i \in 1..MaxOps : \E response \in GrantResponses(tokensIssued) :
          GrantResponse(i, response)
    \/ \E i \in 1..MaxOps : GrantBody(i)
    \/ \E i \in 1..MaxOps : ResumeWithToken(i)
    \/ \E i \in 1..MaxOps : ResumeWithHeader(i)
    \/ \E i \in 1..MaxOps, response \in ListenResponses \cup SpeakResponses :
          DataResponse(i, response)
    \/ \E i \in 1..MaxOps : DataBody(i)
    \/ \E i \in 1..MaxOps : HandlerResumes(i)

\* What the controls of the panel may hold and a caller may pass.
Models == {"", "nova-2"}
Languages == {"", "en"}
OptionRates == {0, DefaultSampleRate}
Keyterms == {"deepgram", "R&D lab"}
KeytermLists == UNION {[1..n -> Keyterms] : n \in 0..MaxKeyterms}

\* An options object with the field set to one of the values, or without it.
Optional(field, values) == {<<>>} \cup {field :> v : v \in values}

\* Every way of passing true, false or nothing for each flag.
FlagOptions == UNION {[present -> BOOLEAN] : present \in SUBSET FlagSet}
SomeFlagOptions == {<<>>, [f \in FlagSet |-> TRUE], [f \in FlagSet |-> FALSE]}

\* Every way of passing the other fields.
FieldOptions ==
    {m @@ l @@ r @@ k : m \in Optional("model", Models),
                        l \in Optional("language", Languages),
                        r \in Optional("sample_rate", OptionRates),
                        k \in Optional("keyterms", KeytermLists)}
SomeFieldOptions ==
    {<<>>, [model |-> "nova-2", language |-> "en", sample_rate |-> DefaultSampleRate,
            keyterms |-> <<"R&D lab", "deepgram">>]}

\* The options of the calls: all flag settings with some of the other fields,
\* and all other fields with some of the flag settings.
TranscriptionOptions ==
    {f @@ o : f \in FlagOptions, o \in SomeFieldOptions}
    \cup {f @@ o : f \in SomeFlagOptions, o \in FieldOptions}

\* Commands of the panel: any boxes checked, and any model, language, rate
\* and keyterms.
TranscribeCommands ==
    {TranscribeCommand("recording_1", "nova-3", "en", on, DefaultSampleRate, <<>>) :
        on \in SUBSET Checkboxes}
    \cup {TranscribeCommand("recording_1", model, language, CheckedByDefault, rate, keyterms) :
            model \in Models, language \in Languages,
            rate \in {8000, DefaultSampleRate}, keyterms \in KeytermLists}

\* The recording of a session at the default rate that got one chunk.
StoredClip ==
    StopRecordingResult(NewSession(1, DefaultSampleRate, 0), 0,
                        <<[chunks |-> <<<<65>>>>, stopped |-> FALSE, spawned |-> TRUE]>>, 0)

\* The state after setApiKey('k1'), startRecording(), one chunk and
\* stopRecording().
InitStored ==
    /\ apiKey = "k1"
    /\ useShortLivedToken = FALSE
    /\ recordings = StopRecordingStore(<<>>, StoredClip)
    /\ currentRecording = Null
    /\ recordingId = StoredClip.recordingId
    /\ streams = <<[chunks |-> <<<<65>>>>, stopped |-> TRUE, spawned |-> TRUE]>>
    /\ now = 0
    /\ lastCall = Call("stopRecording", Null, Null, StoredClip.value)
    /\ sessions = <<[sampleRate |-> DefaultSampleRate, delivered |-> <<<<65>>>>]>>
    /\ deleteLog = {}
    /\ assigned = <<StoredClip.value.id>>
    /\ ops = <<>>
    /\ tokensIssued = 0
    /\ webview = WebviewLoaded

\* One transcription of the stored clip, with any options.
QueryNext ==
    \/ \E options \in TranscriptionOptions :
          ops = <<>> /\ TranscribeAudio("recording_1", options)
    \/ \E data \in TranscribeCommands : ops = <<>> /\ HandleTranscribe(data)
    \/ \E i \in 1..MaxOps : ResumeWithToken(i)
    \/ \E i \in 1..MaxOps : ResumeWithHeader(i)
    \/ \E i \in 1..MaxOps, response \in ListenResponses : DataResponse(i, response)
    \/ \E i \in 1..MaxOps : DataBody(i)
    \/ \E i \in 1..MaxOps : HandlerResumes(i)

\* The id of the stored clip, and one the store does not hold.
ClipIds == {StoredClip.value.id, "recording_x"}

\* The commands of the panel on a stored clip, with every answer of the
\* provider and the credential commands arriving at any suspension.
PanelNext ==
    \/ \E key \in Keys : SetApiKey(key)
    \/ \E value \in BOOLEAN : SetUseShortLivedToken(value)
    \/ \E id \in AudioIds : OpsLeft(MaxOps) /\ HandleTranscribe(PanelDefaults(id))
    \/ \E text \in Texts, voice \in Voices : OpsLeft(MaxOps) /\ SynthesizeSpeech(text, voice)
    \/ \E id \in AudioIds : OpsLeft(MaxOps) /\ HandlePlayAudio(id)
    \/ DeleteAudio(StoredClip.value.id)
    \/ \E i \in 1..MaxOps : \E response \in GrantResponses(tokensIssued) :
          GrantResponse(i, response)
    \/ \E i \in 1..MaxOps : GrantBody(i)
    \/ \E i \in 1..MaxOps : ResumeWithToken(i)
    \/ \E i \in 1..MaxOps : ResumeWithHeader(i)
    \/ \E i \in 1..MaxOps,
          response \in ListenResponses \cup MalformedResponses \cup SpeakResponses :
          DataResponse(i, response)
    \/ \E i \in 1..MaxOps : DataBody(i)
    \/ \E i \in 1..MaxOps : HandlerResumes(i)

\* The store shared by capture, delete, play and the transcriptions in flight,
\* from a stored clip on, with the static key.
ShareNext ==
    \/ SessionsLeft(MaxRecordings) /\ StartRecording(DefaultSampleRate, "runs")
    \/ \E handle \in 1..MaxRecordings : WriteChunk(handle, <<65>>)
    \/ StopRecording
    \/ \E id \in ClipIds : DeleteAudio(id)
    \/ \E id \in AudioIds : OpsLeft(MaxOps) /\ HandleTranscribe(PanelDefaults(id))
    \/ \E id \in AudioIds : OpsLeft(MaxOps) /\ HandlePlayAudio(id)
    \/ \E i \in 1..MaxOps : ResumeWithToken(i)
    \/ \E i \in 1..MaxOps : ResumeWithHeader(i)
    \/ \E i \in 1..MaxOps, response \in ListenResponses : DataResponse(i, response)
    \/ \E i \in 1..MaxOps : DataBody(i)
    \/ \E i \in 1..MaxOps : HandlerResumes(i)

\* What operation i waits for happens: the provider answers (with a rejected
\* fetch, a refusal, a well-formed body or a body without alternative), the
\* body of an answer arrives, the call resumes with its token or its header, or the
\* handler resumes from the settled call.
Respond(i) ==
    \/ \E response \in GrantResponses(tokensIssued) : GrantResponse(i, response)
    \/ GrantBody(i)
    \/ ResumeWithToken(i)
    \/ ResumeWithHeader(i)
    \/ \E response \in ListenResponses \cup {NoAlternativeResponse} \cup SpeakResponses :
          DataResponse(i, response)
    \/ DataBody(i)
    \/ HandlerResumes(i)

\* Several commands of the panel in flight at once on a stored clip, in the
\* credential mode chosen before the first of them.
CommandNext ==
    \/ \E value \in BOOLEAN : ops = <<>> /\ SetUseShortLivedToken(value)
    \/ \E id \in ClipIds : OpsLeft(MaxCommands) /\ HandleTranscribe(PanelDefaults(id))
    \/ \E text \in Texts, voice \in Voices :
          OpsLeft(MaxCommands) /\ SynthesizeSpeech(text, voice)
    \/ \E id \in ClipIds : OpsLeft(MaxCommands) /\ HandlePlayAudio(id)
    \/ \E i \in 1..MaxCommands : Respond(i)

\* The answers of the data endpoints that accept the request.
Accepted == {response \in ListenResponses \cup SpeakResponses :
                ~response.rejected /\ response.ok}

\* Several transcriptions of the stored clip and syntheses in flight at once,
\* with the mode switched and the API key cleared at any suspension, every
\* answer of the token-issuance endpoint, and data endpoints that accept.
TokenNext ==
    \/ SetApiKey("")
    \/ \E value \in BOOLEAN : SetUseShortLivedToken(value)
    \/ OpsLeft(MaxCommands) /\ HandleTranscribe(PanelDefaults(StoredClip.value.id))
    \/ \E text \in Texts, voice \in Voices :
          OpsLeft(MaxCommands) /\ SynthesizeSpeech(text, voice)
    \/ \E i \in 1..MaxCommands : \E response \in GrantResponses(tokensIssued) :
          GrantResponse(i, response)
    \/ \E i \in 1..MaxCommands : GrantBody(i)
    \/ \E i \in 1..MaxCommands : ResumeWithToken(i)
    \/ \E i \in 1..MaxCommands : ResumeWithHeader(i)
    \/ \E i \in 1..MaxCommands, response \in Accepted : DataResponse(i, response)
    \/ \E i \in 1..MaxCommands : DataBody(i)
    \/ \E i \in 1..MaxCommands : HandlerResumes(i)

\* Everything but the panel's script.
host == <<service, lastCall, deleteLog, assigned, ops, tokensIssued>>

\* Room for one more recording message between the panel and the host.
InFlightLeft(max) ==
    Len(webview.commands) + Len(webview.awaiting) + Len(webview.events) < max

\* The message the record button posts, given the script's flag.
RecordBtnMessage(isRecording) ==
    IF ~isRecording THEN "startRecording" ELSE "stopRecording"

\* A click on the record button.
RecordBtnClick ==
    /\ webview' = [webview EXCEPT
                      !.commands = Append(@, RecordBtnMessage(webview.isRecording))]
    /\ UNCHANGED host

\* A handler suspended on `await this.deepgramService.<call>`: the event it
\* posts if the call returned, the outcome of the call, whether the promise it
\* awaits was settled when the call returned (it then resumes one microtask
\* later; the promise of a startRecording that got past its guards adopts the
\* inner `new Promise` and settles two microtasks after the call), and whether
\* a handler called after it has resumed before it.
Suspended(type, call, settled) ==
    [type |-> type, call |-> call, settled |-> settled, overtaken |-> FALSE]

\* The host reads a startRecording command: handleStartRecording() up to its
\* await.
HandleStartRecording(backend) ==
    /\ webview.commands # <<>>
    /\ Head(webview.commands) = "startRecording"
    /\ StartRecordingCall(DefaultSampleRate, backend)
    /\ lastCall' = NoCall
    /\ webview' = [webview EXCEPT
          !.commands = Tail(@),
          !.awaiting = Append(@, Suspended("recordingStarted",
                Call("startRecording", DefaultSampleRate,
                     StartRecordingError(apiKey, currentRecording, backend), Null),
                StartRecordingGuard(apiKey, currentRecording) # Null))]

\* The host reads a stopRecording command: handleStopRecording() up to its
\* await.
HandleStopRecording ==
    /\ webview.commands # <<>>
    /\ Head(webview.commands) = "stopRecording"
    /\ StopRecordingCall
    /\ lastCall' = NoCall
    /\ webview' = [webview EXCEPT
          !.commands = Tail(@),
          !.awaiting = Append(@, Suspended("recordingStopped", StopRecordingOutcome, TRUE))]

\* The suspended handler the microtask queue resumes first: the first that
\* awaits a settled promise, or else the first.
NextToResume(awaiting) ==
    IF \E k \in DOMAIN awaiting : awaiting[k].settled
    THEN CHOOSE k \in DOMAIN awaiting :
            /\ awaiting[k].settled
            /\ \A j \in 1..(k - 1) : ~awaiting[j].settled
    ELSE 1

\* The suspended handlers once handler k has resumed.
Resumed(awaiting, k) ==
    [j \in 1..(Len(awaiting) - 1) |->
        IF j < k THEN [awaiting[j] EXCEPT !.overtaken = TRUE] ELSE awaiting[j + 1]]

\* The events the host has posted once a recording handler is through: the
\* handler posts `type` when the call it awaited returned, nothing when it threw.
RecordingPosted(events, type, error) ==
    IF error = Null THEN Append(events, type) ELSE events

\* A handler resumes from its await: it posts its event, or its catch shows
\* the error. The outcome is the last call's unless a later call's is known.
ResumeRecordingHandler ==
    /\ webview.awaiting # <<>>
    /\ \E k \in {NextToResume(webview.awaiting)} :
          /\ webview' = [webview EXCEPT
                !.awaiting = Resumed(@, k),
                !.events = RecordingPosted(@, webview.awaiting[k].type,
                                           webview.awaiting[k].call.error)]
          /\ lastCall' = IF webview.awaiting[k].overtaken THEN lastCall
                         ELSE webview.awaiting[k].call
    /\ UNCHANGED <<service, deleteLog, assigned, ops, tokensIssued>>

\* The script's flag after a message of the host.
OnMessage(isRecording, type) ==
    IF type = "recordingStarted" THEN TRUE
    ELSE IF type = "recordingStopped" THEN FALSE
    ELSE isRecording

\* The panel's listener receives the oldest event.
ReceiveMessage ==
    /\ webview.events # <<>>
    /\ webview' = [webview EXCEPT
                      !.isRecording = OnMessage(@, Head(webview.events)),
                      !.events = Tail(@)]
    /\ UNCHANGED host

\* No recording command is on its way or being handled, and no recording event
\* is on its way.
NothingInFlight ==
    webview.commands = <<>> /\ webview.awaiting = <<>> /\ webview.events = <<>>

\* The view is hidden and shown again: the editor calls resolveWebviewView()
\* anew, which sets the page and so runs the script from its first line, while
\* the provider keeps the service it was built with and its suspended
\* handlers. The messages on their way to or from the page that is replaced
\* arrive or are lost with it.
ResolveWebviewView ==
    /\ \E commands \in {webview.commands, <<>>}, events \in {webview.events, <<>>} :
          webview' = [webview EXCEPT !.isRecording = WebviewLoaded.isRecording,
                                     !.commands = commands,
                                     !.events = events]
    /\ UNCHANGED host

\* The panel records and stops, and is hidden and shown.
WebviewNext ==
    \/ \E key \in Keys : SetApiKey(key)
    \/ InFlightLeft(MaxInFlight) /\ RecordBtnClick
    \/ \E backend \in Backends :
          SessionsLeft(MaxRecordings) /\ HandleStartRecording(backend)
    \/ HandleStopRecording
    \/ ResumeRecordingHandler
    \/ ReceiveMessage
    \/ ResolveWebviewView

Next ==
    \/ CaptureNext
    \/ StoreNext
    \/ NetNext
    \/ QueryNext
    \/ PanelNext
    \/ ShareNext
    \/ CommandNext
    \/ TokenNext
    \/ DeviceNext
    \/ WebviewNext

Spec == Init /\ [][Next]_vars

SpecCapture == Init /\ [][CaptureNext]_vars

SpecStore == Init /\ [][StoreNext]_vars

SpecDevice == Init /\ [][DeviceNext]_vars

SpecNet == Init /\ [][NetNext]_vars

SpecWebview == Init /\ [][WebviewNext]_vars

SpecQuery == InitStored /\ [][QueryNext]_vars

SpecPanel == InitStored /\ [][PanelNext]_vars

SpecShare == InitStored /\ [][ShareNext]_vars

SpecToken == InitStored /\ [][TokenNext]_vars

\* Where each operation is suspended; every step of an operation changes it.
positions == [i \in DOMAIN ops |-> <<ops[i].pc, ops[i].events # <<>>>>]

\* Every request sent is answered, with a response or with the rejection of the
\* fetch, and an await on a settled promise resumes.
SpecCommand ==
    InitStored /\ [][CommandNext]_vars /\ \A i \in 1..MaxCommands : WF_positions(Respond(i))

\* ------------------------------------------------------------------------
\* Properties
\* ------------------------------------------------------------------------

\* The streams on which stop() has not been called.
RunningStreams(heap) == {k \in DOMAIN heap : ~heap[k].stopped}

\* At most one capture session exists, and it is the one the service holds.
AtMostOneSession(current, heap) ==
    /\ Cardinality(RunningStreams(heap)) <= 1
    /\ current # Null => RunningStreams(heap) = {current.stream}
    /\ current = Null => RunningStreams(heap) = {}

\* The chunks of a list joined in list order, defined from the last chunk.
RECURSIVE Concatenation(_)
Concatenation(chunks) ==
    IF Len(chunks) = 0 THEN <<>>
    ELSE Concatenation(SubSeq(chunks, 1, Len(chunks) - 1)) \o chunks[Len(chunks)]

\* The number n of the id `recording_n`.
IdNumber(id) == CHOOSE n \in 0..(recordingId + MaxRecordings) : RecordingIdString(n) = id

\* C1 as stated: a startRecording call made while a capture session is active
\* fails with AlreadyRecordingError whatever its sample rate, and leaves the
\* session unchanged; at most one capture session exists.
C1_StartWhileActiveIsAlreadyRecording ==
    [][/\ (currentRecording # Null /\ lastCall'.op = "startRecording")
            => /\ lastCall'.error = AlreadyRecordingError
               /\ UNCHANGED <<currentRecording, streams>>
       /\ AtMostOneSession(currentRecording', streams')]_vars

\* C1 amended: a startRecording call made while a capture session is active
\* fails whatever its sample rate, with AlreadyRecordingError when an API key
\* is set and with MissingCredentialError when the key is empty, and leaves
\* the session unchanged; at most one capture session exists.
C1_StartWhileActiveFails ==
    [][/\ (currentRecording # Null /\ lastCall'.op = "startRecording")
            => /\ lastCall'.error =
                    (IF apiKey = "" THEN MissingCredentialError ELSE AlreadyRecordingError)
               /\ UNCHANGED <<currentRecording, streams>>
       /\ AtMostOneSession(currentRecording', streams')]_vars

\* A start at another rate than the active session's was refused.
C1_Witness ==
    /\ lastCall.op = "startRecording"
    /\ lastCall.error = AlreadyRecordingError
    /\ currentRecording # Null
    /\ lastCall.arg # currentRecording.sampleRate

\* C2: the Recording that stopRecording returns and stores has as buffer the
\* chunks delivered between the start and the stop of its session, joined in
\* delivery order, and as sampleRate the rate the session was started with.
C2_BufferIsDeliveredChunks ==
    /\ \A id \in DOMAIN recordings :
          /\ recordings[id].buffer = Concatenation(sessions[IdNumber(id)].delivered)
          /\ recordings[id].sampleRate = sessions[IdNumber(id)].sampleRate
    /\ (lastCall.op = "stopRecording" /\ lastCall.error = Null)
          => /\ lastCall.value.buffer = Concatenation(sessions[Len(sessions)].delivered)
             /\ lastCall.value.sampleRate = sessions[Len(sessions)].sampleRate

\* A stop returned a clip of two different chunks captured at a rate other
\* than the default.
C2_Witness ==
    /\ lastCall.op = "stopRecording"
    /\ lastCall.error = Null
    /\ Len(sessions[Len(sessions)].delivered) = 2
    /\ sessions[Len(sessions)].delivered[1] # sessions[Len(sessions)].delivered[2]
    /\ lastCall.value.sampleRate # DefaultSampleRate

\* C3: stopRecording called with no active session fails with
\* NotRecordingError and leaves the store, the id counter and the session
\* state unchanged.
C3_StopWhenIdleFails ==
    [][(currentRecording = Null /\ lastCall'.op = "stopRecording")
          => /\ lastCall'.error = NotRecordingError
             /\ UNCHANGED <<recordings, recordingId, currentRecording>>]_vars

\* A stop was refused after a recording had been stored.
C3_Witness ==
    /\ lastCall.op = "stopRecording"
    /\ lastCall.error = NotRecordingError
    /\ recordingId > 0
    /\ DOMAIN recordings # {}

\* C4: when a successful stopRecording returns, the session state is Null and
\* the returned Recording is in the store under its own id, unchanged; a
\* startRecording is rejected as already recording only while a session is
\* active, so the start that follows a stop is accepted.
C4_StopMaterializes ==
    /\ (lastCall.op = "stopRecording" /\ lastCall.error = Null)
          => /\ currentRecording = Null
             /\ lastCall.value.id \in DOMAIN recordings
             /\ recordings[lastCall.value.id] = lastCall.value
             /\ StartRecordingGuard("k1", currentRecording) = Null
    /\ (lastCall.op = "startRecording" /\ lastCall.error = AlreadyRecordingError)
          => currentRecording # Null

\* A start was accepted after a stop had stored a clip of non-zero duration.
C4_Witness ==
    /\ lastCall.op = "startRecording"
    /\ lastCall.error = Null
    /\ \E id \in DOMAIN recordings : recordings[id].duration[1] > 0

\* C5: the ids stopRecording assigns are pairwise distinct and increase in
\* creation order, whatever deleteAudio commands came in between, and no put
\* replaces an entry of the store.
C5_IdsNeverReused ==
    /\ \A i, j \in DOMAIN assigned :
          i < j => /\ assigned[i] # assigned[j]
                   /\ IdNumber(assigned[i]) < IdNumber(assigned[j])
    /\ DOMAIN recordings \subseteq {assigned[i] : i \in DOMAIN assigned}
    /\ Cardinality(DOMAIN recordings) = Len(assigned)

\* A second clip was stored after a deleteAudio command for the first.
C5_Witness ==
    /\ Len(assigned) = 2
    /\ assigned[1] \in deleteLog
    /\ assigned[2] \in DOMAIN recordings
    /\ lastCall.op = "stopRecording"

\* C6: a delete never fails; it removes the entry of its id and no other, which
\* for an id that is not in the store leaves the store unchanged; from then on
\* the lookup of the id by transcribeAudio and by playAudio fails with
\* NotFoundError.
C6_DeleteIsIdempotentRemoval ==
    [][/\ lastCall'.op = "deleteRecording"
            => /\ lastCall'.error = Null
               /\ DOMAIN recordings' = DOMAIN recordings \ {lastCall'.arg}
               /\ \A id \in DOMAIN recordings' : recordings'[id] = recordings[id]
       /\ \A id \in deleteLog' :
            /\ TranscribeAudioCall(id, HandleTranscribeOptions(PanelDefaults(id)), recordings',
                                   useShortLivedToken', apiKey').error
                  = NotFoundError
            /\ PlayAudioCall(id, recordings').error = NotFoundError]_vars

\* The requests of an operation to the token-issuance endpoint, and its data
\* requests.
GrantRequests(op) == {k \in DOMAIN op.requests : op.requests[k].url = GrantUrl}
DataRequests(op) == {k \in DOMAIN op.requests : op.requests[k].url # GrantUrl}

\* The operation got as far as resolving its credential.
ReachedResolution(op) ==
    IF op.kind = "transcribeAudio" THEN op.recording # Null
    ELSE op.kind = "synthesizeSpeech" /\ op.error # MissingCredentialError

\* The token-issuance endpoint answered the operation, with success or with a
\* non-success status.
GrantAnswered(op) ==
    /\ GrantRequests(op) # {}
    /\ Len(op.responses) >= 1
    /\ ~op.responses[1].rejected
GrantSucceeded(op) == GrantAnswered(op) /\ op.responses[1].ok
GrantRefused(op) == GrantAnswered(op) /\ ~op.responses[1].ok

\* The short-lived token the provider issued to the operation.
IssuedToken(op) == op.responses[1].body.json.access_token

\* C7 as stated: transcribeAudio of a stored recording whose buffer is empty
\* fails with EmptyAudioError, in either mode, and sends no request before.
C7_EmptyAudioFailsBeforeNetwork ==
    \A i \in DOMAIN ops :
        (/\ ops[i].kind = "transcribeAudio"
         /\ ops[i].recording # Null
         /\ Len(ops[i].recording.buffer) = 0)
          => /\ ops[i].requests = <<>>
             /\ ops[i].pc = "done" => ops[i].error = EmptyAudioError

\* C8 as stated: the Authorization header of a data request is either Bearer
\* with the short-lived token issued to this operation or Token with a raw
\* API key; the schemes are never crossed.
C8_SchemeMatchesCredential ==
    \A i \in DOMAIN ops : \A k \in DataRequests(ops[i]) :
        \/ /\ GrantSucceeded(ops[i])
           /\ ops[i].requests[k].authorization = "Bearer " \o IssuedToken(ops[i])
        \/ \E key \in Keys : ops[i].requests[k].authorization = "Token " \o key

\* C9: an operation whose token request was answered with a non-success
\* status has failed with the error that carries the status text, and has sent
\* no data request.
C9_GrantFailureStopsOperation ==
    \A i \in DOMAIN ops :
        GrantRefused(ops[i])
          => /\ ops[i].pc = "done"
             /\ ops[i].error = Error("Failed to get short-lived token: "
                                     \o ops[i].responses[1].statusText)
             /\ ops[i].value = Null
             /\ DataRequests(ops[i]) = {}

\* The transcription of a non-empty clip was refused a token.
C9_Witness ==
    \E i \in DOMAIN ops :
        /\ GrantRefused(ops[i])
        /\ ops[i].kind = "transcribeAudio"
        /\ Len(ops[i].recording.buffer) > 0
        /\ ops[i].error = Error("Failed to get short-lived token: Unauthorized")

\* C10: an operation that resolves its credential in short-lived mode sends
\* exactly one token request and uses the token of its answer, which is
\* issued to no other operation; in static mode it sends no token request and uses the API
\* key as it was.
C10_TokenResolvedPerOperation ==
    /\ \A i \in DOMAIN ops :
          LET op == ops[i]
              credential == IF op.shortLived THEN IssuedToken(op) ELSE op.key
          IN  ReachedResolution(op) =>
                /\ Cardinality(GrantRequests(op)) = (IF op.shortLived THEN 1 ELSE 0)
                /\ op.shortLived => op.requests[1].authorization = "Token " \o op.key
                /\ (op.pc \in {"token", "header", "data"} \/ DataRequests(op) # {})
                      => /\ op.shortLived => GrantSucceeded(op)
                         /\ op.token = credential
                /\ \A k \in DataRequests(op) :
                      op.requests[k].authorization \in
                          {"Bearer " \o credential, "Token " \o credential}
    /\ \A i, j \in DOMAIN ops :
          (i # j /\ GrantSucceeded(ops[i]) /\ GrantSucceeded(ops[j]))
              => IssuedToken(ops[i]) # IssuedToken(ops[j])

\* Two operations called in short-lived mode are in flight at once, each with
\* the token of its own request in its data request, and the API key has been
\* cleared since the first was called.
C10_Witness ==
    \E i, j \in DOMAIN ops :
        /\ i # j
        /\ ops[i].shortLived /\ ops[j].shortLived
        /\ GrantSucceeded(ops[i]) /\ GrantSucceeded(ops[j])
        /\ ops[i].pc = "data" /\ ops[j].pc = "data"
        /\ \A k \in {i, j} :
              /\ Cardinality(GrantRequests(ops[k])) = 1
              /\ ops[k].requests[2].authorization = "Bearer " \o IssuedToken(ops[k])
        /\ IssuedToken(ops[i]) # IssuedToken(ops[j])
        /\ ops[i].key # apiKey

\* The first position of character c in s, or 0.
RECURSIVE IndexOf(_, _)
IndexOf(s, c) ==
    IF s = "" THEN 0
    ELSE IF SubSeq(s, 1, 1) = c THEN 1
    ELSE LET rest == IndexOf(SubSeq(s, 2, Len(s)), c)
         IN  IF rest = 0 THEN 0 ELSE rest + 1

\* The pieces of s between the occurrences of character c.
RECURSIVE Split(_, _)
Split(s, c) ==
    LET at == IndexOf(s, c)
    IN  IF at = 0 THEN <<s>>
        ELSE <<SubSeq(s, 1, at - 1)>> \o Split(SubSeq(s, at + 1, Len(s)), c)

\* What a server reads out of a form-urlencoded name or value.
RECURSIVE FormUrlDecode(_)
FormUrlDecode(s) ==
    IF s = "" THEN ""
    ELSE LET c == SubSeq(s, 1, 1)
         IN  IF c = "+" THEN " " \o FormUrlDecode(SubSeq(s, 2, Len(s)))
             ELSE IF c = "%"
             THEN (CHOOSE d \in DOMAIN PercentEncoded : PercentEncoded[d] = SubSeq(s, 1, 3))
                  \o FormUrlDecode(SubSeq(s, 4, Len(s)))
             ELSE c \o FormUrlDecode(SubSeq(s, 2, Len(s)))

\* The entries <<name, value>> a server reads out of the query string of a URL.
QueryEntries(url) ==
    LET query == SubSeq(url, IndexOf(url, "?") + 1, Len(url))
        pairs == IF IndexOf(url, "?") = 0 \/ query = "" THEN <<>> ELSE Split(query, "&")
    IN  [k \in DOMAIN pairs |->
            LET at == IndexOf(pairs[k], "=")
            IN  IF at = 0 THEN <<FormUrlDecode(pairs[k]), "">>
                ELSE <<FormUrlDecode(SubSeq(pairs[k], 1, at - 1)),
                       FormUrlDecode(SubSeq(pairs[k], at + 1, Len(pairs[k])))>>]

\* The values of the entries of that name, in their order.
RECURSIVE ValuesOf(_, _)
ValuesOf(entries, name) ==
    IF entries = <<>> THEN <<>>
    ELSE (IF entries[1][1] = name THEN <<entries[1][2]>> ELSE <<>>)
         \o ValuesOf(Tail(entries), name)

\* The operation has sent its request to the transcription endpoint.
SentListen(op) == op.kind = "transcribeAudio" /\ DataRequests(op) # {}

\* The query entries of that request.
ListenQuery(op) == QueryEntries(op.requests[CHOOSE k \in DataRequests(op) : TRUE].url)

\* C11: in every transcription request, each of the seven flags has an entry
\* in the query string exactly when the options pass true for it, and every
\* entry of a flag has the value true; no flag is ever sent as false.
C11_FlagSentIffTrue ==
    \A i \in DOMAIN ops :
        SentListen(ops[i]) =>
            LET query == ListenQuery(ops[i])
            IN  \A f \in FlagSet :
                    /\ ValuesOf(query, f) # <<>>
                          <=> (Has(ops[i].options, f) /\ ops[i].options[f])
                    /\ \A k \in DOMAIN ValuesOf(query, f) : ValuesOf(query, f)[k] = "true"

\* A request went out for options that pass true for one flag, false for
\* another and nothing for a third.
C11_Witness ==
    \E i \in DOMAIN ops :
        /\ SentListen(ops[i])
        /\ Has(ops[i].options, "punctuate") /\ ops[i].options.punctuate
        /\ Has(ops[i].options, "diarize") /\ ~ops[i].options.diarize
        /\ ~Has(ops[i].options, "dictation")
        /\ ValuesOf(ListenQuery(ops[i]), "punctuate") = <<"true">>

\* C12: in every transcription request, the keyterm entries of the query
\* string are the items of the keyterms list, as many and in the same order;
\* there is none when the list is empty or not passed.
C12_KeytermPerItem ==
    \A i \in DOMAIN ops :
        SentListen(ops[i]) =>
            ValuesOf(ListenQuery(ops[i]), "keyterm")
                = (IF Has(ops[i].options, "keyterms") THEN ops[i].options.keyterms ELSE <<>>)

\* A request went out with two different keyterms, one of them with
\* characters the query string has to encode.
C12_Witness ==
    \E i \in DOMAIN ops :
        /\ SentListen(ops[i])
        /\ Has(ops[i].options, "keyterms")
        /\ ops[i].options.keyterms = <<"R&D lab", "deepgram">>
        /\ ValuesOf(ListenQuery(ops[i]), "keyterm") = <<"R&D lab", "deepgram">>

\* The options pass a sample rate, whatever its value.
RateGiven(options) == Has(options, "sample_rate")

\* C13 as stated: every transcription request has exactly one model entry, the
\* model of the options, or nova-3 when the options have none or an empty one;
\* it has a sample_rate entry, with the rate of the options, exactly when the
\* options pass a sample rate.
C13_ModelAlwaysRateIffGiven ==
    \A i \in DOMAIN ops :
        SentListen(ops[i]) =>
            LET options == ops[i].options
                query == ListenQuery(ops[i])
            IN  /\ ValuesOf(query, "model")
                      = <<IF Has(options, "model") /\ options.model # ""
                          THEN options.model ELSE "nova-3">>
                /\ ValuesOf(query, "sample_rate")
                      = (IF RateGiven(options)
                         THEN <<ToString(options.sample_rate)>> ELSE <<>>)

\* C13 as amended: every transcription request has exactly one model entry, the
\* model of the options, or nova-3 when the options have none or an empty one;
\* it has a sample_rate entry, with the rate of the options, exactly when the
\* options pass a sample rate other than 0, and none when they pass 0 or no
\* rate.
C13_ModelAlwaysRateIfNonZero ==
    \A i \in DOMAIN ops :
        SentListen(ops[i]) =>
            LET options == ops[i].options
                query == ListenQuery(ops[i])
            IN  /\ ValuesOf(query, "model")
                      = <<IF Has(options, "model") /\ options.model # ""
                          THEN options.model ELSE "nova-3">>
                /\ ValuesOf(query, "sample_rate")
                      = (IF RateGiven(options) /\ options.sample_rate # 0
                         THEN <<ToString(options.sample_rate)>> ELSE <<>>)

\* A request went out with the default model and the rate of the options, for
\* options whose model is empty and whose sample rate is 16000.
C13_Witness ==
    \E i \in DOMAIN ops :
        /\ SentListen(ops[i])
        /\ Has(ops[i].options, "model") /\ ops[i].options.model = ""
        /\ RateGiven(ops[i].options) /\ ops[i].options.sample_rate = 16000
        /\ ValuesOf(ListenQuery(ops[i]), "model") = <<"nova-3">>
        /\ ValuesOf(ListenQuery(ops[i]), "sample_rate") = <<"16000">>

\* C14 as stated: a transcription request carries a language entry with the
\* language of the command when that language is not empty, and no language
\* entry when it is empty or absent.
C14_LanguageSentIfGiven ==
    \A i \in DOMAIN ops :
        SentListen(ops[i]) =>
            ValuesOf(ListenQuery(ops[i]), "language")
                = (IF Has(ops[i].options, "language") /\ ops[i].options.language # ""
                   THEN <<ops[i].options.language>> ELSE <<>>)

\* The operations the step has started.
Started == {i \in DOMAIN ops' : i \notin DOMAIN ops}

\* The error event of a command that failed with that error.
ErrorEvent(kind, error) ==
    [type |-> CASE kind = "transcribeAudio" -> "transcriptionError"
                [] kind = "synthesizeSpeech" -> "ttsError"
                [] kind = "playAudio" -> "playAudioError",
     error |-> error.message]

\* C15: a transcribeAudio or playAudio command for an id that is not in the
\* store fails at once with NotFoundError; what the panel gets for it, once
\* its handler has posted, is the error event of the command with that error;
\* it sends no request, neither for a token nor for the transcription; and
\* NotFoundError is never the error of an operation that sent a request.
C15_UnknownIdIsNotFound ==
    [][/\ \A i \in Started :
            (ops'[i].kind \in {"transcribeAudio", "playAudio"}
             /\ ops'[i].audioId \notin DOMAIN recordings)
              => /\ ops'[i].pc = "done"
                 /\ ops'[i].error = NotFoundError
                 /\ ops'[i].value = Null
                 /\ ops'[i].requests = <<>>
       /\ \A i \in DOMAIN ops' :
            /\ ops'[i].requests # <<>> => ops'[i].error # NotFoundError
            /\ (ops'[i].error = NotFoundError /\ ops'[i].events # <<>>)
                  => ops'[i].events = <<ErrorEvent(ops'[i].kind, NotFoundError)>>]_vars

\* C16: startRecording with an empty API key fails with MissingCredentialError,
\* opens no stream and leaves the session, the store and the counter as they
\* were; a start with a key set and no session active is not refused, and
\* opens a session unless the audio backend cannot be started.
C16_StartWithoutKeyFails ==
    [][lastCall'.op = "startRecording" =>
          /\ apiKey = "" =>
                /\ lastCall'.error = MissingCredentialError
                /\ UNCHANGED <<currentRecording, streams, recordings, recordingId, sessions>>
          /\ (apiKey # "" /\ currentRecording = Null) =>
                /\ lastCall'.error \in {Null, DeviceUnavailableError}
                /\ lastCall'.error = Null =>
                      (currentRecording' # Null /\ Len(streams') = Len(streams) + 1)]_vars

\* A start without key failed in the idle state, and no stream was ever opened.
C16_Witness ==
    /\ lastCall.op = "startRecording"
    /\ lastCall.error = MissingCredentialError
    /\ apiKey = ""
    /\ currentRecording = Null
    /\ streams = <<>>

\* C17: a synthesizeSpeech call made while the API key is empty fails at once
\* with MissingCredentialError and sends no request, in either mode; what its
\* handler posts once it resumes is ttsError with that error, also when the
\* key was set in between.
C17_SynthesisWithoutKeyFails ==
    [][/\ \A i \in Started :
            (ops'[i].kind = "synthesizeSpeech" /\ apiKey = "")
              => /\ ops'[i].pc = "done"
                 /\ ops'[i].error = MissingCredentialError
                 /\ ops'[i].value = Null
                 /\ ops'[i].requests = <<>>
                 /\ ops'[i].events = <<>>
       /\ \A i \in DOMAIN ops' :
            (ops'[i].kind = "synthesizeSpeech" /\ ops'[i].error = MissingCredentialError)
              => /\ ops'[i].requests = <<>>
                 /\ ops'[i].events \in
                       {<<>>, <<ErrorEvent("synthesizeSpeech", MissingCredentialError)>>}]_vars

\* In short-lived mode, a synthesis without key failed and sent nothing; the
\* key was set before its handler posted the error.
C17_Witness ==
    \E i \in DOMAIN ops :
        /\ ops[i].kind = "synthesizeSpeech"
        /\ ops[i].error = MissingCredentialError
        /\ ops[i].requests = <<>>
        /\ ops[i].events = <<ErrorEvent("synthesizeSpeech", MissingCredentialError)>>
        /\ useShortLivedToken /\ apiKey # ""

\* The data endpoint has answered the operation; its answer.
DataAnswered(op) == DataRequests(op) # {} /\ Len(op.responses) = Len(op.requests)
DataAnswer(op) == op.responses[Len(op.responses)]

\* C18: an operation whose data request was answered with a non-success
\* status returns nothing; once the body text has arrived it has failed with
\* the error that carries the status text and the body text of the answer
\* ("Deepgram API error" for a transcription, "Deepgram TTS error" for a
\* synthesis), and what its panel handler posts is the error event of the
\* command and no other event.
C18_ApiErrorCarriesStatusAndBody ==
    \A i \in DOMAIN ops :
        LET op == ops[i]
            error == Error((IF op.kind = "transcribeAudio"
                            THEN "Deepgram API error: " ELSE "Deepgram TTS error: ")
                           \o DataAnswer(op).statusText \o " - " \o DataAnswer(op).body.text)
        IN  (DataAnswered(op) /\ ~DataAnswer(op).rejected /\ ~DataAnswer(op).ok)
              => /\ op.value = Null
                 /\ op.pc \in {"dataBody", "done"}
                 /\ op.pc = "dataBody" => (op.error = Null /\ op.events = <<>>)
                 /\ op.pc = "done" =>
                       /\ op.error = error
                       /\ op.events \in {<<>>, <<ErrorEvent(op.kind, error)>>}

\* A synthesis in short-lived mode was refused by the data endpoint.
C18_Witness ==
    \E i \in DOMAIN ops :
        /\ ops[i].kind = "synthesizeSpeech"
        /\ ops[i].shortLived
        /\ DataAnswered(ops[i]) /\ ~DataAnswer(ops[i]).rejected /\ ~DataAnswer(ops[i]).ok
        /\ ops[i].events = <<[type |-> "ttsError",
                              error |-> "Deepgram TTS error: Bad Request - unknown model"]>>

\* The parsed body has a first channel with a first alternative with a
\* transcript.
HasTranscript(body) ==
    /\ "results" \in DOMAIN body
    /\ "channels" \in DOMAIN body.results
    /\ Len(body.results.channels) >= 1
    /\ "alternatives" \in DOMAIN body.results.channels[1]
    /\ Len(body.results.channels[1].alternatives) >= 1
    /\ "transcript" \in DOMAIN body.results.channels[1].alternatives[1]

\* The transcription endpoint answered the operation with success.
ListenSucceeded(op) ==
    /\ op.kind = "transcribeAudio"
    /\ DataAnswered(op) /\ ~DataAnswer(op).rejected /\ DataAnswer(op).ok

\* C19: when the transcription endpoint answers with success and the body has
\* no first channel, no first alternative or no transcript, the command ends
\* with a TypeError that the handler catches: what the panel gets is one
\* transcriptionError event with its message and no transcriptionResult, and
\* no step of the command from the answer on changes anything of the
\* service's state.
C19_MalformedBodyIsAnError ==
    [][\A i \in DOMAIN ops :
          (/\ ListenSucceeded(ops'[i])
           /\ ~HasTranscript(DataAnswer(ops'[i]).body.json))
            => /\ ops'[i].pc \in {"dataBody", "done"}
               /\ ops'[i].events # <<>> =>
                     /\ ops'[i].pc = "done"
                     /\ Len(ops'[i].events) = 1
                     /\ ops'[i].events[1].type = "transcriptionError"
                     /\ \E property \in {"channels", "0", "alternatives", "transcript",
                                          "length"} :
                           ops'[i].events[1].error = ReadError(property).message
               /\ ops'[i] # ops[i] =>
                     UNCHANGED <<apiKey, useShortLivedToken, recordings, currentRecording,
                                 recordingId, streams>>]_vars

\* The answer had a channel without alternatives, and the panel got the error.
C19_Witness ==
    \E i \in DOMAIN ops :
        /\ ListenSucceeded(ops[i])
        /\ DataAnswer(ops[i]).body.json.results.channels = <<[alternatives |-> <<>>]>>
        /\ ops[i].events
              = <<[type |-> "transcriptionError",
                   error |-> "Cannot read properties of undefined (reading 'transcript')"]>>

\* The answer was a rejected fetch or a non-success status.
Failed(response) == response.rejected \/ ~response.ok

\* C20: no operation sends more than one token request or more than one data
\* request; an operation whose request failed has sent nothing after it and
\* returns nothing, and is done with an error as soon as the failure is read
\* (at once, or when the body text of a refused data request has arrived); and
\* an operation that is done stays done and never sends again.
C20_NoRetries ==
    [][\A i \in DOMAIN ops' :
          /\ Cardinality(GrantRequests(ops'[i])) <= 1
          /\ Cardinality(DataRequests(ops'[i])) <= 1
          /\ \A k \in DOMAIN ops'[i].responses :
                Failed(ops'[i].responses[k])
                  => /\ ops'[i].pc \in {"dataBody", "done"}
                     /\ ops'[i].pc = "dataBody" => k \in DataRequests(ops'[i])
                     /\ ops'[i].pc = "done" => ops'[i].error # Null
                     /\ ops'[i].value = Null
                     /\ Len(ops'[i].requests) = k
          /\ (i \in DOMAIN ops /\ ops[i].pc = "done")
                => /\ ops'[i].pc = "done"
                   /\ ops'[i].requests = ops[i].requests
                   /\ ops'[i].responses = ops[i].responses
                   /\ ops'[i].error = ops[i].error
                   /\ ops'[i].value = ops[i].value]_vars

\* A transcription got its token and then its data request was rejected: two
\* requests in all.
C20_Witness ==
    \E i \in DOMAIN ops :
        /\ ops[i].kind = "transcribeAudio"
        /\ GrantSucceeded(ops[i])
        /\ DataAnswered(ops[i]) /\ DataAnswer(ops[i]).rejected
        /\ ops[i].pc = "done"
        /\ Len(ops[i].requests) = 2

\* The events of the two kinds a command may produce: its result and its error.
OutcomeEvents(kind) ==
    CASE kind = "transcribeAudio" -> {"transcriptionResult", "transcriptionError"}
      [] kind = "synthesizeSpeech" -> {"ttsResult", "ttsError"}
      [] kind = "playAudio" -> {"playAudioResult", "playAudioError"}

\* The command has produced exactly one event, of one of its two kinds.
OneOutcome(op) ==
    /\ Len(op.events) = 1
    /\ op.events[1].type \in OutcomeEvents(op.kind)

\* C21: every transcribeAudio, synthesizeSpeech and playAudio command whose
\* requests are all answered eventually produces exactly one event, its result
\* or its error: again and again every command sent so far has its one event.
\* Until its call has settled and its handler has resumed a command has
\* produced none, it never produces a second one, and the event once posted
\* stays the one it was, also when several commands are in flight at once.
C21_ExactlyOneOutcome ==
    /\ [](\A i \in DOMAIN ops :
            ops[i].events = <<>> \/ (ops[i].pc = "done" /\ OneOutcome(ops[i])))
    /\ [][\A i \in DOMAIN ops : OneOutcome(ops[i]) => ops'[i].events = ops[i].events]_vars
    /\ []<>(\A i \in DOMAIN ops : OneOutcome(ops[i]))

\* Two commands are in flight at once: the transcription sent second has been
\* answered with a refusal and has produced its error event, while the
\* synthesis sent first still waits for its answer and has produced nothing.
C21_Witness ==
    \E i, j \in DOMAIN ops :
        /\ i < j
        /\ ops[i].kind = "synthesizeSpeech" /\ ops[i].pc = "data" /\ ops[i].events = <<>>
        /\ ops[j].kind = "transcribeAudio" /\ Len(ops[j].responses) = 1
        /\ OneOutcome(ops[j]) /\ ops[j].events[1].type = "transcriptionError"

\* C22: a stored recording keeps its id, buffer, duration and sample rate from
\* the step that stores it to the step that deletes it: no step changes what a
\* key that stays in the store maps to, be it a chunk delivered late, a new
\* session, a stop, a transcription, a play or a delete of another id.
C22_RecordingsAreImmutable ==
    [][\A id \in DOMAIN recordings \cap DOMAIN recordings' :
          recordings'[id] = recordings[id]]_vars

\* The stored clip is as it was created, after its stopped stream delivered a
\* further chunk, a second session was stopped, a transcription of the clip
\* was answered, and a deleteAudio command for another id was handled.
C22_Witness ==
    /\ StoredClip.value.id \in DOMAIN recordings
    /\ deleteLog = {"recording_x"}
    /\ recordings[StoredClip.value.id] = StoredClip.value
    /\ Len(streams[1].chunks) > 1
    /\ Len(assigned) > 1
    /\ \E i \in DOMAIN ops : ops[i].kind = "transcribeAudio" /\ Len(ops[i].responses) = 1

\* The step is a startRecording that passed its guards on a machine whose
\* recorder process could not be spawned: record() threw, or the stream it
\* returned belongs to a process that never ran.
BackendNotSpawned ==
    /\ lastCall'.op = "startRecording"
    /\ StartRecordingGuard(apiKey, currentRecording) = Null
    /\ \/ lastCall'.error = DeviceUnavailableError
       \/ Len(streams') = Len(streams) + 1 /\ ~streams'[Len(streams')].spawned

\* C23: a startRecording whose recorder process cannot be spawned fails with
\* the device error, which is neither the already-recording nor the
\* missing-credential error; no session becomes active, and a start that
\* follows is not rejected as already recording.
C23_UnspawnedBackendFailsStart ==
    [][BackendNotSpawned =>
          /\ lastCall'.error = DeviceUnavailableError
          /\ lastCall'.error \notin {AlreadyRecordingError, MissingCredentialError}
          /\ currentRecording' = Null
          /\ streams' = streams
          /\ StartRecordingGuard(apiKey', currentRecording') # AlreadyRecordingError]_vars

\* C24: whatever the interleaving of stops, deletes and the lookups of the
\* transcriptions and plays in flight, every key of the store maps to the
\* recording with that id, every key is an id the counter has issued, and the
\* store holds as many recordings as stops succeeded less the deletes that
\* removed one, of which there is none.
C24_KeySpaceConsistent ==
    /\ \A key \in DOMAIN recordings :
          /\ recordings[key].id = key
          /\ \E n \in 1..recordingId : key = RecordingIdString(n)
    /\ Cardinality(DOMAIN recordings) = Len(assigned)

\* A deleteAudio command for the first clip came while a transcription of it
\* was waiting for its answer, and a second clip has been stored since.
C24_Witness ==
    /\ deleteLog = {RecordingIdString(1)}
    /\ RecordingIdString(2) \in DOMAIN recordings
    /\ \E i \in DOMAIN ops :
          /\ ops[i].kind = "transcribeAudio" /\ ops[i].audioId = RecordingIdString(1)
          /\ ops[i].pc = "data"

\* The step is one of a transcribeAudio or synthesizeSpeech call: the call
\* itself, or its continuation after a suspension.
OperationStep ==
    \E i \in DOMAIN ops' :
        /\ ops'[i].kind \in {"transcribeAudio", "synthesizeSpeech"}
        /\ i \in DOMAIN ops => ops'[i].pc # ops[i].pc

\* C25: no step of a transcribeAudio or synthesizeSpeech call, from the call
\* to its last continuation and whatever its outcome, changes the recording
\* store, the capture session, the id counter, the API key or the
\* short-lived-mode flag.
C25_OperationsAreReadOnly ==
    [][OperationStep =>
          UNCHANGED <<recordings, currentRecording, recordingId, apiKey,
                      useShortLivedToken>>]_vars

\* A transcription has gone through both of its suspensions, the token request
\* and the upload, and has succeeded; the recording it sent is still stored
\* as it was.
C25_Witness ==
    \E i \in DOMAIN ops :
        /\ ops[i].kind = "transcribeAudio" /\ ops[i].pc = "done" /\ ops[i].error = Null
        /\ Len(ops[i].responses) = 2
        /\ MapGet(recordings, ops[i].audioId) = ops[i].recording

\* The options are those handleTranscribe builds from a command of the panel.
FromPanel(options) ==
    \E data \in TranscribeCommands : options = HandleTranscribeOptions(data)

\* C26: the request of every transcription the panel commands has one
\* sample_rate entry, and it is the rate at which the recording it sends was
\* captured, whatever rate the panel had selected when the command was sent.
C26_SampleRateIsCapturedRate ==
    \A i \in DOMAIN ops :
        (SentListen(ops[i]) /\ FromPanel(ops[i].options)) =>
            ValuesOf(ListenQuery(ops[i]), "sample_rate")
                = <<ToString(ops[i].recording.sampleRate)>>

\* The chunks of a list up to the m-th.
Prefix(chunks, m) == SubSeq(chunks, 1, m)

\* C27: the buffer of the n-th recording is made of chunks of the n-th stream
\* alone, those it had delivered when it was stopped; and the delivery of a
\* chunk by one stream, stopped or not, changes neither a stored recording, nor
\* the chunk list of another stream, nor the active session.
C27_SessionsAreIsolated ==
    /\ [](\A n \in DOMAIN assigned :
            assigned[n] \in DOMAIN recordings =>
                \E m \in 0..Len(streams[n].chunks) :
                    recordings[assigned[n]].buffer = Concatenation(Prefix(streams[n].chunks, m)))
    /\ [][\A handle \in DOMAIN streams :
            streams'[handle].chunks # streams[handle].chunks =>
                /\ recordings' = recordings
                /\ currentRecording' = currentRecording
                /\ \A other \in DOMAIN streams \ {handle} :
                      streams'[other].chunks = streams[other].chunks]_vars

\* The first stream has delivered a chunk after its session was stopped and
\* while the second session is active: the first recording holds the chunk
\* delivered before the stop, and the second session has no chunk.
C27_Witness ==
    /\ currentRecording # Null /\ currentRecording.stream = 2
    /\ Len(streams[1].chunks) = 2
    /\ RecordingIdString(1) \in DOMAIN recordings
    /\ recordings[RecordingIdString(1)].buffer = streams[1].chunks[1]
    /\ streams[2].chunks = <<>>

\* The Authorization headers built from an empty key.
EmptyKeyHeaders == {GetAuthHeaderValue(shortLived, "") : shortLived \in BOOLEAN}

\* C28: no request, for a token or for data, carries an Authorization header
\* built from an empty API key; a transcribeAudio of a stored recording and a
\* synthesizeSpeech called while the key is empty fail with
\* MissingCredentialError.
C28_NoRequestWithEmptyKey ==
    /\ [](\A i \in DOMAIN ops : \A k \in DOMAIN ops[i].requests :
            ops[i].requests[k].authorization \notin EmptyKeyHeaders)
    /\ [][\A i \in Started :
            (/\ apiKey = ""
             /\ \/ ops'[i].kind = "synthesizeSpeech"
                \/ ops'[i].kind = "transcribeAudio" /\ ops'[i].audioId \in DOMAIN recordings)
            => (ops'[i].pc = "done" /\ ops'[i].error = MissingCredentialError)]_vars

\* C30: whenever no recording command and no recording event is on its way
\* between the panel and the host, the panel's isRecording flag is true exactly
\* when the service holds a capture session.
C30_PanelFlagFollowsSession ==
    NothingInFlight => (webview.isRecording <=> currentRecording # Null)

====
